---- MODULE Spec2Model ----
(***************************************************************************)
(* censor-ai backend: the analyzer (uploadVideo / processVideo) and the    *)
(* editor (convertVideo / processVideoByAge / blur / trim).                *)
(*                                                                         *)
(* SpecUpload is an upload handled by either program; SpecConvert is any   *)
(* convert request on any file; SpecRender is a valid convert request with *)
(* every ratings list of up to MaxSegs segments.                           *)
(* SpecEndToEnd is an upload followed by a convert request that carries    *)
(* the returned list; SpecConcurrent is two requests served at once,       *)
(* followed through the steps that touch a file.                           *)
(*                                                                         *)
(* Time is counted in ticks of 1/6000 s, so that 0.001 s, 0.0005 s and     *)
(* every frame period of the frame rates used below are whole numbers.     *)
(* Frame rates are carried as twice their value ("halves"), so that 0.5    *)
(* and 2.5 frames per second are whole numbers too.                        *)
(***************************************************************************)
EXTENDS Integers, Sequences, FiniteSets, TLC

\* ------------------------------------------------------------------ bounds
MaxFrames == 3          \* frames in a video file
MaxSegs == 2            \* segments in a client-supplied ratings list

\* ------------------------------------------------------- program constants
Epsilon == 6            \* const epsilon = 0.001 (seconds), in ticks
DefaultFps == 30        \* fps = 30 when the reported fps is <= 0
TicksPerSec == 1000 * Epsilon
OneSecond == TicksPerSec            \* the literal 1 of "timestamp - 1"

\* --------------------------------------------------------------- utilities
Range(s) == {s[i] : i \in 1..Len(s)}

SeqsUpTo(S, n) == UNION {[1..k -> S] : k \in 0..n}

Perms(n) == {p \in [1..n -> 1..n] : \A i, j \in 1..n : i # j => p[i] # p[j]}

\* ------------------------------------------------------------ rating scale
\* A mutant of getRatingValue: the default case returns 18.
GetRatingValueDefault18(rating) ==
    CASE rating = "6+" -> 6
      [] rating = "12+" -> 12
      [] rating = "16+" -> 16
      [] rating = "18+" -> 18
      [] OTHER -> 18

getRatingValue(rating) ==
    CASE rating = "6+" -> 6
      [] rating = "12+" -> 12
      [] rating = "16+" -> 16
      [] rating = "18+" -> 18
      [] OTHER -> 0

\* ------------------------------------------------------------- video clock
\* fps := video.Get(FPS); if fps <= 0 { fps = 30 }   (in halves)
EffectiveFps(reported) == IF reported <= 0 THEN 2 * DefaultFps ELSE reported

\* int(fps): Go truncates toward zero
IntFps(fps) == fps \div 2

\* float64(frameIndex) / fps, in ticks
Timestamp(frameIndex, fps) == (frameIndex * 2 * TicksPerSec) \div fps

\* ------------------------------------------------------------------ strings
\* A notes string is the sequence of its characters.  The characters that
\* occur in the classifier replies below, in byte order (sort.Strings
\* compares byte-wise).
CharOrder == <<" ", ",", "K", "d", "e", "f", "g", "h", "i", "k", "n", "o", "r", "s", "t">>
Code(c) == CHOOSE i \in 1..Len(CharOrder) : CharOrder[i] = c

\* strings.ToLower
ToLowerChar(c) == IF c = "K" THEN "k" ELSE c
ToLower(str) == [i \in 1..Len(str) |-> ToLowerChar(str[i])]

\* strings.TrimSpace
RECURSIVE TrimLeft(_)
TrimLeft(str) ==
    IF str # <<>> /\ Head(str) = " " THEN TrimLeft(Tail(str)) ELSE str
RECURSIVE TrimRight(_)
TrimRight(str) ==
    IF str # <<>> /\ str[Len(str)] = " " THEN TrimRight(SubSeq(str, 1, Len(str) - 1))
    ELSE str
TrimSpace(str) == TrimRight(TrimLeft(str))

\* strings.Split(str, ","): the pieces between the commas ("" gives one
\* empty piece)
RECURSIVE Split(_)
Split(str) ==
    IF \A i \in 1..Len(str) : str[i] # "," THEN <<str>>
    ELSE LET k == CHOOSE i \in 1..Len(str) :
                      str[i] = "," /\ \A j \in 1..(i - 1) : str[j] # ","
         IN <<SubSeq(str, 1, k - 1)>> \o Split(SubSeq(str, k + 1, Len(str)))

\* a < b as Go compares strings
RECURSIVE StringLess(_, _)
StringLess(a, b) ==
    IF b = <<>> THEN FALSE
    ELSE IF a = <<>> THEN TRUE
    ELSE IF Head(a) # Head(b) THEN Code(Head(a)) < Code(Head(b))
    ELSE StringLess(Tail(a), Tail(b))

\* the keys of the map collected into a slice, then sort.Strings
RECURSIVE SortStrings(_)
SortStrings(set) ==
    IF set = {} THEN <<>>
    ELSE LET least == CHOOSE x \in set : \A y \in set \ {x} : StringLess(x, y)
         IN <<least>> \o SortStrings(set \ {least})

\* strings.Join(list, ", ")
RECURSIVE Join(_)
Join(list) ==
    IF list = <<>> THEN <<>>
    ELSE IF Len(list) = 1 THEN list[1]
    ELSE list[1] \o <<",", " ">> \o Join(Tail(list))

None == <<"n", "o", "n", "e">>

\* A mutant of the note filter: the token "none" is kept.
NoteTokensKeepNone(notes) ==
    {TrimSpace(ToLower(piece)) : piece \in Range(Split(notes))} \ {<<>>}

\* The tokens one notes string adds to combinedNotes: split on commas,
\* lower-cased and trimmed, "" and "none" left out.
NoteTokens(notes) ==
    {TrimSpace(ToLower(piece)) : piece \in Range(Split(notes))} \ {<<>>, None}

\* sort.Strings(notesList); strings.Join(notesList, ", ")
NotesStr(set) == Join(SortStrings(set))

\* ------------------------------------------------------------------- state
VARIABLES
    req,            \* "upload" or "convert": the request being handled
    build,          \* "root" (unnamed/part_001) or "backend" (backend/main.go)
    video,          \* the uploaded file as the decoder sees it
    form,           \* the convert request's form fields
    pc,             \* position of the handler
    uploads,        \* files in the uploads folder
    processed,      \* files in the processed folder
    response,       \* the HTTP response, status 0 while none was sent
    frameIndex,     \* frameIndex of the running loop
    ratings,        \* convertVideo's ratings slice (handed to blur / trim)
    out,            \* frames written to the output video, in order
    decided,        \* history: one record per frame the render loop body ran for
    lastRating, startTime, combinedNotes, results,   \* processVideo's locals
    samples,        \* history: the classifier results processVideo consumed
    events,         \* history: file and stream operations, in order
    handlers,       \* requests served at the same time, one goroutine each
    disk,           \* the files those requests share: path and whose content
    interference    \* history: operations of one request on another's file

vars == <<req, build, video, form, pc, uploads, processed, response, frameIndex,
          ratings, out, decided, lastRating, startTime, combinedNotes, results,
          samples, events, handlers, disk, interference>>

concurrentVars == <<handlers, disk, interference>>

analysisVars == <<lastRating, startTime, combinedNotes, results, samples>>
renderVars == <<ratings, out, decided>>

NoResponse == [status |-> 0, error |-> "", filename |-> "", ratings |-> <<>>]
ErrorResponse(code, msg) == [NoResponse EXCEPT !.status = code, !.error = msg]

\* filepath.Join(uploadFolder, file.Filename)
UploadName == "uploads/video.mp4"
\* filepath.Join(processedFolder, fmt.Sprintf("processed_%d.mp4", timestamp))
OutputName == "processed/processed_1.mp4"

\* RatingResult
Segment(start, end, rating, notes) ==
    [Start |-> start, End |-> end, Rating |-> rating, Notes |-> notes]

\* ------------------------------------------------------- frame decisions
\* Mutants of the membership tests and of the comparisons with the target age.
InBlurSegmentOpenEnd(timestamp, rating) ==
    timestamp >= rating.Start /\ timestamp < rating.End

\* blur: timestamp >= rating.Start && timestamp <= rating.End
InBlurSegment(timestamp, rating) ==
    timestamp >= rating.Start /\ timestamp <= rating.End

InTrimSegmentNoEpsilon(timestamp, rating) ==
    timestamp >= rating.Start /\ timestamp <= rating.End

\* trim: isAfterStart && isBeforeEnd, with epsilon = 0.001
InTrimSegment(timestamp, rating) ==
    /\ timestamp >= rating.Start - Epsilon
    /\ timestamp <= rating.End + Epsilon

BlurExceedsOrEqual(rating, age) == getRatingValue(rating.Rating) >= age

\* blur: ratingValue > age
BlurExceeds(rating, age) == getRatingValue(rating.Rating) > age

TrimAllowedStrict(rating, age) == getRatingValue(rating.Rating) < age

\* trim: ratingValue <= age
TrimAllowed(rating, age) == getRatingValue(rating.Rating) <= age

\* blur's scan of the ratings slice from index i on: shouldBlur.  A containing
\* segment that does not exceed the age does not end the scan.
RECURSIVE BlurScan(_, _, _, _)
BlurScan(rs, i, timestamp, age) ==
    IF i > Len(rs) THEN FALSE
    ELSE IF InBlurSegment(timestamp, rs[i]) /\ BlurExceeds(rs[i], age) THEN TRUE
    ELSE BlurScan(rs, i + 1, timestamp, age)

\* trim's scan from index i on: the first containing segment ends the scan.
RECURSIVE TrimScan(_, _, _, _)
TrimScan(rs, i, timestamp, age) ==
    IF i > Len(rs)
    THEN [inRatedSegment |-> FALSE, shouldInclude |-> FALSE, matchedRating |-> "unrated",
          ratingValue |-> 0]
    ELSE IF InTrimSegment(timestamp, rs[i])
    THEN [inRatedSegment |-> TRUE, shouldInclude |-> TrimAllowed(rs[i], age),
          matchedRating |-> rs[i].Rating, ratingValue |-> getRatingValue(rs[i].Rating)]
    ELSE TrimScan(rs, i + 1, timestamp, age)

\* A mutant of the sort: the slice is left in the order it arrived in.
SortByStartNoSort(rs) == {rs}

\* sort.Slice(ratings, less by Start): not stable, so segments with equal
\* Start may end in any order.
SortByStart(rs) ==
    {[i \in 1..Len(rs) |-> rs[p[i]]] : p \in
        {q \in Perms(Len(rs)) :
            \A i, j \in 1..Len(rs) : i < j => rs[q[i]].Start <= rs[q[j]].Start}}

\* --------------------------------------------------------- convertVideo
\* json.Unmarshal([]byte(ratingsStr), &ratings): the text is carried as its
\* kind ("empty", "malformed" or "list") and, for a list, the segments in it.
RatingsParse(text) ==
    IF text.kind = "list" THEN [ok |-> TRUE, list |-> text.list]
    ELSE [ok |-> FALSE, list |-> <<>>]

\* strconv.Atoi(age), for the ages that pass validation
Atoi(age) == CASE age = "6" -> 6 [] age = "12" -> 12 [] age = "16" -> 16 [] OTHER -> 0

\* A mutant of the validation: the age is not compared with 6, 12, 16.
ValidationErrorAnyAge(f) ==
    IF ~f.hasFile THEN "No video file provided"
    ELSE IF f.ratingsStr.kind # "empty" /\ ~RatingsParse(f.ratingsStr).ok
    THEN "Invalid ratings format"
    ELSE IF f.age = "" THEN "Age is required"
    ELSE IF f.videoType = "" THEN "Video type is required"
    ELSE IF f.videoType # "blur" /\ f.videoType # "trim"
    THEN "Video type must be one of: blur, trim"
    ELSE ""

\* The checks of convertVideo in the order of the code; "" when all pass.
ValidationError(f) ==
    IF ~f.hasFile THEN "No video file provided"
    ELSE IF f.ratingsStr.kind # "empty" /\ ~RatingsParse(f.ratingsStr).ok
    THEN "Invalid ratings format"
    ELSE IF f.age = "" THEN "Age is required"
    ELSE IF f.videoType = "" THEN "Video type is required"
    ELSE IF f.age # "6" /\ f.age # "12" /\ f.age # "16"
    THEN "Age must be one of: 6, 12, 16"
    ELSE IF f.videoType # "blur" /\ f.videoType # "trim"
    THEN "Video type must be one of: blur, trim"
    ELSE ""

\* convertVideo up to the last validation: a 400 response, or on to the save.
ConvertValidate ==
    /\ req = "convert" /\ pc = "recv"
    /\ IF ValidationError(form) # ""
       THEN /\ response' = ErrorResponse(400, ValidationError(form))
            /\ pc' = "done"
            /\ UNCHANGED ratings
       ELSE /\ ratings' = IF form.ratingsStr.kind = "empty" THEN <<>>
                          ELSE RatingsParse(form.ratingsStr).list
            /\ pc' = "save"
            /\ UNCHANGED response
    /\ UNCHANGED <<concurrentVars, req, build, video, form, uploads, processed, frameIndex, out,
                   decided, analysisVars, events>>

\* c.SaveUploadedFile(file, filename) of convertVideo
ConvertSave ==
    /\ req = "convert" /\ pc = "save"
    /\ \E saved \in BOOLEAN :
        IF saved
        THEN /\ uploads' = uploads \cup {UploadName}
             /\ events' = Append(events, "save")
             /\ pc' = "open"
             /\ UNCHANGED response
        ELSE /\ response' = ErrorResponse(500, "Failed to save video file")
             /\ pc' = "done"
             /\ UNCHANGED <<uploads, events>>
    /\ UNCHANGED <<concurrentVars, req, build, video, form, processed, frameIndex, renderVars,
                   analysisVars>>

\* processVideoByAge up to the call of blur or trim; on an error convertVideo
\* answers 500 and removes the input file.
ProcessVideoByAgeOpen ==
    /\ req = "convert" /\ pc = "open"
    /\ IF ~video.openable
       THEN /\ response' = ErrorResponse(500, "failed to open video")
            /\ uploads' = uploads \ {UploadName}
            /\ events' = events \o <<"open failed", "remove input">>
            /\ pc' = "done"
            /\ UNCHANGED processed
       ELSE \E created \in BOOLEAN :
            IF created
            THEN /\ processed' = processed \cup {OutputName}
                 /\ events' = events \o <<"open", "create output">>
                 /\ pc' = IF form.videoType = "blur" THEN "blur" ELSE "trim_sort"
                 /\ UNCHANGED <<response, uploads>>
            ELSE /\ response' = ErrorResponse(500, "failed to create video writer")
                 /\ uploads' = uploads \ {UploadName}
                 /\ events' = events \o <<"open", "create failed", "remove input">>
                 /\ pc' = "done"
                 /\ UNCHANGED processed
    /\ UNCHANGED <<concurrentVars, req, build, video, form, frameIndex, renderVars, analysisVars>>

\* video.Read(&img): ok while the decoder still delivers a frame
ReadOk(v, i) == i < v.readable

\* Why the render loop breaks at frame i: Read fails at the end of the stream
\* and on a frame that does not decode alike; a frame that was read is
\* discarded once frameIndex reaches the reported frame count.
ReadEnd(v, i) ==
    IF ReadOk(v, i) THEN "frame count reached"
    ELSE IF i < v.nFrames THEN "decode failed"
    ELSE "end of stream"

\* blurInappropriateContent: one turn of the loop
BlurFrame ==
    /\ req = "convert" /\ pc = "blur"
    /\ LET fps == EffectiveFps(video.fps)
           timestamp == Timestamp(frameIndex, fps)
           shouldBlur == BlurScan(ratings, 1, timestamp, Atoi(form.age))
       IN IF ~ReadOk(video, frameIndex) \/ frameIndex >= video.totalFrames
          THEN /\ pc' = "rendered"
               /\ events' = Append(events, ReadEnd(video, frameIndex))
               /\ UNCHANGED <<frameIndex, out, decided>>
          ELSE /\ out' = Append(out, [frame |-> frameIndex, blurred |-> shouldBlur])
               /\ decided' = Append(decided,
                     [frame |-> frameIndex, timestamp |-> timestamp, mode |-> "blur",
                      decision |-> IF shouldBlur THEN "Transform" ELSE "Keep"])
               /\ frameIndex' = frameIndex + 1
               /\ events' = events \o <<"read", "write">>
               /\ UNCHANGED pc
    /\ UNCHANGED <<concurrentVars, req, build, video, form, uploads, processed, response, ratings,
                   analysisVars>>

\* trimInappropriateContent before its loop: the ratings slice is sorted in place
TrimSort ==
    /\ req = "convert" /\ pc = "trim_sort"
    /\ \E sorted \in SortByStart(ratings) : ratings' = sorted
    /\ pc' = "trim"
    /\ UNCHANGED <<concurrentVars, req, build, video, form, uploads, processed, response, frameIndex,
                   out, decided, analysisVars, events>>

\* trimInappropriateContent: one turn of the loop.  frameIndex%int(fps) of the
\* once-per-second log line divides by zero when 0 < fps < 1; gin's Recovery
\* middleware turns the panic into a 500 response.
TrimFrame ==
    /\ req = "convert" /\ pc = "trim"
    /\ LET fps == EffectiveFps(video.fps)
           timestamp == Timestamp(frameIndex, fps)
           scan == TrimScan(ratings, 1, timestamp, Atoi(form.age))
       IN IF ~ReadOk(video, frameIndex) \/ frameIndex >= video.totalFrames
          THEN /\ pc' = "rendered"
               /\ events' = Append(events, ReadEnd(video, frameIndex))
               /\ UNCHANGED <<frameIndex, out, decided, response>>
          ELSE IF IntFps(fps) = 0
          THEN /\ pc' = "done"
               /\ response' = ErrorResponse(500, "panic: integer divide by zero")
               /\ events' = events \o <<"read", "panic">>
               /\ UNCHANGED <<frameIndex, out, decided>>
          ELSE /\ out' = IF scan.shouldInclude
                         THEN Append(out, [frame |-> frameIndex, blurred |-> FALSE])
                         ELSE out
               /\ decided' = Append(decided,
                     [frame |-> frameIndex, timestamp |-> timestamp, mode |-> "trim",
                      decision |-> IF scan.shouldInclude THEN "Keep" ELSE "Drop",
                      inRatedSegment |-> scan.inRatedSegment,
                      matchedRating |-> scan.matchedRating,
                      ratingValue |-> scan.ratingValue])
               /\ frameIndex' = frameIndex + 1
               /\ events' = events \o (IF scan.shouldInclude THEN <<"read", "write">>
                                       ELSE <<"read">>)
               /\ UNCHANGED <<pc, response>>
    /\ UNCHANGED <<concurrentVars, req, build, video, form, uploads, processed, ratings, analysisVars>>

\* blur / trim returned nil: processVideoByAge returns outputPath, convertVideo
\* removes the input file and answers 200 with the download name.
ConvertFinish ==
    /\ req = "convert" /\ pc = "rendered"
    /\ uploads' = uploads \ {UploadName}
    /\ response' = [NoResponse EXCEPT !.status = 200, !.filename = OutputName]
    /\ events' = Append(events, "remove input")
    /\ pc' = "done"
    /\ UNCHANGED <<concurrentVars, req, build, video, form, processed, frameIndex, renderVars,
                   analysisVars>>

NextConvert ==
    \/ ConvertValidate
    \/ ConvertSave
    \/ ProcessVideoByAgeOpen
    \/ BlurFrame
    \/ TrimSort
    \/ TrimFrame
    \/ ConvertFinish

\* ----------------------------------------------------- analyzeFrameWithOpenAI
Kids == <<"k", "i", "d", "s">>
Forest == <<"f", "o", "r", "e", "s", "t">>
Fight == <<"f", "i", "g", "h", "t">>
Messy == <<" ", "K", "i", "d", "s", ",", "n", "o", "n", "e", ",", " ", "f", "i", "g", "h", "t", ",">>

\* What the chat-completions call may bring back: no response at all, a body
\* without choices, or a first choice with this content.  json is what
\* json.Unmarshal makes of the content from its first "{" on (ok = FALSE when
\* there is no "{" or the text is no JSON object).
Content(text, ok, rating, notes) ==
    [kind |-> "content", text |-> text, json |-> [ok |-> ok, rating |-> rating, notes |-> notes]]

Replies ==
    { [kind |-> "transport error", text |-> "", json |-> [ok |-> FALSE, rating |-> "", notes |-> <<>>]],
      [kind |-> "no choices", text |-> "", json |-> [ok |-> FALSE, rating |-> "", notes |-> <<>>]],
      Content("{\"rating\":\"6+\",\"notes\":\"kids\"}", TRUE, "6+", Kids),
      Content("{\"rating\":\"6+\",\"notes\":\"forest\"}", TRUE, "6+", Forest),
      Content("{\"rating\":\"12+\",\"notes\":\"fight\"}", TRUE, "12+", Fight),
      Content("{\"rating\":\"12+\",\"notes\":\" Kids,none, fight,\"}", TRUE, "12+", Messy),
      Content("{\"notes\":\"kids\"}", TRUE, "", Kids),
      Content("I cannot rate this image.", FALSE, "", <<>>) }

Returned(rating, notes) == [rating |-> rating, notes |-> notes, err |-> "", panic |-> FALSE]
Failed(err) == [rating |-> "", notes |-> <<>>, err |-> err, panic |-> FALSE]
Panicked == [rating |-> "", notes |-> <<>>, err |-> "", panic |-> TRUE]

\* unnamed/part_001: the content is parsed as {"rating", "notes"}
AnalyzeRoot(reply) ==
    IF reply.kind = "transport error" THEN Failed("failed to send request")
    ELSE IF reply.kind = "no choices" THEN Failed("no choices in response")
    ELSE IF ~reply.json.ok THEN Failed("no JSON object found in response")
    ELSE Returned(reply.json.rating, reply.json.notes)

\* backend/main.go: openAIResp.Choices[0].Message.Content is returned as the
\* rating, with empty notes; Choices[0] of an empty list panics.
AnalyzeBackend(reply) ==
    IF reply.kind = "transport error" THEN Failed("failed to send request")
    ELSE IF reply.kind = "no choices" THEN Panicked
    ELSE Returned(reply.text, <<>>)

analyzeFrameWithOpenAI(b, reply) ==
    IF b = "root" THEN AnalyzeRoot(reply) ELSE AnalyzeBackend(reply)

\* ------------------------------------------------------------- processVideo
\* A mutant of the closing rule: the closed segment ends at the new timestamp.
ClosedSegmentEndAtTimestamp(start, timestamp, rating, notes) ==
    Segment(start, timestamp, rating, NotesStr(notes))

\* RatingResult{Start: startTime, End: timestamp - 1, Rating: lastRating, Notes: notesStr}
ClosedSegment(start, timestamp, rating, notes) ==
    Segment(start, timestamp - OneSecond, rating, NotesStr(notes))

\* RatingResult{Start: startTime, End: float64(frameIndex) / fps, ...}
FinalSegment(start, frames, fps, rating, notes) ==
    Segment(start, Timestamp(frames, fps), rating, NotesStr(notes))

\* RatingResult{Start: timestamp, Rating: fmt.Sprintf("Error: %v", err)}
ErrorSegment(timestamp, err) == Segment(timestamp, 0, "Error: " \o err, <<>>)

\* A mutant of the merge: on a rating change the open segment is replaced
\* without being appended to results.
MergeWithoutEmit(st, timestamp, rating, notes) ==
    IF rating = st.lastRating
    THEN [st EXCEPT !.combinedNotes = @ \cup NoteTokens(notes)]
    ELSE [lastRating |-> rating,
          startTime |-> timestamp,
          combinedNotes |-> NoteTokens(notes),
          results |-> st.results]

\* The body of "if rating == lastRating { ... } else { ... }" on the locals
\* st = [lastRating, startTime, combinedNotes, results].
Merge(st, timestamp, rating, notes) ==
    IF rating = st.lastRating
    THEN [st EXCEPT !.combinedNotes = @ \cup NoteTokens(notes)]
    ELSE [lastRating |-> rating,
          startTime |-> timestamp,
          combinedNotes |-> NoteTokens(notes),
          results |-> IF st.lastRating # ""
                      THEN Append(st.results,
                               ClosedSegment(st.startTime, timestamp, st.lastRating,
                                             st.combinedNotes))
                      ELSE st.results]

Locals == [lastRating |-> lastRating, startTime |-> startTime,
           combinedNotes |-> combinedNotes, results |-> results]

\* uploadVideo up to the call of processVideo
UploadSave ==
    /\ req = "upload" /\ pc = "recv"
    /\ IF ~form.hasFile
       THEN /\ response' = ErrorResponse(400, "No video file provided")
            /\ pc' = "done"
            /\ UNCHANGED <<uploads, events>>
       ELSE \E saved \in BOOLEAN :
            IF saved
            THEN /\ uploads' = uploads \cup {UploadName}
                 /\ events' = Append(events, "save")
                 /\ pc' = "open"
                 /\ UNCHANGED response
            ELSE /\ response' = ErrorResponse(500, "Failed to save video file")
                 /\ pc' = "done"
                 /\ UNCHANGED <<uploads, events>>
    /\ UNCHANGED <<concurrentVars, req, build, video, form, processed, frameIndex, renderVars,
                   analysisVars>>

\* processVideo up to its loop; when the file does not open uploadVideo
\* answers 500 and returns (the input file is left where it is).
ProcessVideoOpen ==
    /\ req = "upload" /\ pc = "open"
    /\ IF ~video.openable
       THEN /\ response' = ErrorResponse(500, "failed to open video")
            /\ events' = Append(events, "open failed")
            /\ pc' = "done"
       ELSE /\ events' = Append(events, "open")
            /\ pc' = "analyze"
            /\ UNCHANGED response
    /\ UNCHANGED <<concurrentVars, req, build, video, form, uploads, processed, frameIndex,
                   renderVars, analysisVars>>

\* processVideo: the break of the loop, or one turn of it on a frame that is
\* not sampled or on a sampled frame whose JPEG encoding fails (frameIndex++;
\* continue).  frameIndex%int(fps) divides by zero when 0 < fps < 1.
ProcessVideoFrame ==
    /\ req = "upload" /\ pc = "analyze"
    /\ LET fps == EffectiveFps(video.fps) IN
       IF ~ReadOk(video, frameIndex)
       THEN /\ pc' = "analyzed"
            /\ events' = Append(events, ReadEnd(video, frameIndex))
            /\ UNCHANGED <<frameIndex, response>>
       ELSE IF IntFps(fps) = 0
       THEN /\ pc' = "done"
            /\ response' = ErrorResponse(500, "panic: integer divide by zero")
            /\ events' = events \o <<"read", "panic">>
            /\ UNCHANGED frameIndex
       ELSE /\ frameIndex' = frameIndex + 1
            /\ events' = events \o (IF frameIndex % IntFps(fps) = 0
                                    THEN <<"read", "encode failed">>
                                    ELSE <<"read">>)
            /\ UNCHANGED <<pc, response>>
    /\ UNCHANGED <<concurrentVars, req, build, video, form, uploads, processed, renderVars,
                   analysisVars>>

\* processVideo: one turn of the loop on a sampled frame: the classifier is
\* called and its result merged; on its error the one-segment list is returned.
ProcessVideoSample ==
    /\ req = "upload" /\ pc = "analyze"
    /\ ReadOk(video, frameIndex)
    /\ IntFps(EffectiveFps(video.fps)) # 0
    /\ frameIndex % IntFps(EffectiveFps(video.fps)) = 0
    /\ \E reply \in Replies :
        LET timestamp == Timestamp(frameIndex, EffectiveFps(video.fps))
            res == analyzeFrameWithOpenAI(build, reply)
            sample == [timestamp |-> timestamp, frame |-> frameIndex, reply |-> reply,
                       rating |-> res.rating, notes |-> res.notes, err |-> res.err,
                       panic |-> res.panic]
            new == Merge(Locals, timestamp, res.rating, res.notes)
        IN /\ samples' = Append(samples, sample)
           /\ IF res.panic
              THEN /\ pc' = "done"
                   /\ response' = ErrorResponse(500, "panic: index out of range")
                   /\ events' = events \o <<"read", "classify", "panic">>
                   /\ UNCHANGED <<frameIndex, lastRating, startTime, combinedNotes, results>>
              ELSE IF res.err # ""
              THEN /\ results' = <<ErrorSegment(timestamp, res.err)>>
                   /\ pc' = "respond"
                   /\ events' = events \o <<"read", "classify">>
                   /\ UNCHANGED <<frameIndex, lastRating, startTime, combinedNotes, response>>
              ELSE /\ lastRating' = new.lastRating
                   /\ startTime' = new.startTime
                   /\ combinedNotes' = new.combinedNotes
                   /\ results' = new.results
                   /\ frameIndex' = frameIndex + 1
                   /\ events' = events \o <<"read", "classify">>
                   /\ UNCHANGED <<pc, response>>
    /\ UNCHANGED <<concurrentVars, req, build, video, form, uploads, processed, renderVars>>

\* A mutant of the end of processVideo: the final segment is appended without
\* the test lastRating != "".
ProcessVideoEndAlwaysEmits ==
    /\ req = "upload" /\ pc = "analyzed"
    /\ results' = Append(results,
                      FinalSegment(startTime, frameIndex, EffectiveFps(video.fps),
                                   lastRating, combinedNotes))
    /\ pc' = "respond"
    /\ UNCHANGED <<concurrentVars, req, build, video, form, uploads, processed, response, frameIndex,
                   renderVars, lastRating, startTime, combinedNotes, samples, events>>

\* processVideo after its loop: the open segment is closed at
\* float64(frameIndex) / fps and the list returned.
ProcessVideoEnd ==
    /\ req = "upload" /\ pc = "analyzed"
    /\ results' = IF lastRating # ""
                  THEN Append(results,
                           FinalSegment(startTime, frameIndex, EffectiveFps(video.fps),
                                        lastRating, combinedNotes))
                  ELSE results
    /\ pc' = "respond"
    /\ UNCHANGED <<concurrentVars, req, build, video, form, uploads, processed, response, frameIndex,
                   renderVars, lastRating, startTime, combinedNotes, samples, events>>

\* uploadVideo after processVideo returned a list: the input file is removed
\* and the list sent.
UploadRespond ==
    /\ req = "upload" /\ pc = "respond"
    /\ uploads' = uploads \ {UploadName}
    /\ response' = [NoResponse EXCEPT !.status = 200, !.ratings = results]
    /\ events' = Append(events, "remove input")
    /\ pc' = "done"
    /\ UNCHANGED <<concurrentVars, req, build, video, form, processed, frameIndex, renderVars,
                   analysisVars>>

NextUpload ==
    \/ UploadSave
    \/ ProcessVideoOpen
    \/ ProcessVideoFrame
    \/ ProcessVideoSample
    \/ ProcessVideoEnd
    \/ UploadRespond

\* ----------------------------------------------------------------- inputs
Ages == {"6", "12", "16"}
Modes == {"blur", "trim"}

\* Frame period of the 2 fps video the render inputs use
Period == Timestamp(1, 4)

\* Segment bounds around the frame at Period: exactly on it, within the
\* tolerance of it (0.0005 s) and outside the tolerance (0.002 s).
RenderIntervals ==
    { <<0, Period - 2 * Epsilon>>, <<0, Period - (Epsilon \div 2)>>, <<0, Period>>,
      <<Period + (Epsilon \div 2), 2 * Period>>, <<Period, 2 * Period>> }

RenderRatings == {"6+", "16+", "18+", "Error: no choices in response"}

RenderSegments ==
    {Segment(iv[1], iv[2], r, <<>>) : iv \in RenderIntervals, r \in RenderRatings}

FullVideo(fps, n) ==
    [fps |-> fps, nFrames |-> n, readable |-> n, totalFrames |-> n, openable |-> TRUE]

InitCommon ==
    /\ pc = "recv"
    /\ uploads = {} /\ processed = {}
    /\ response = NoResponse
    /\ frameIndex = 0
    /\ ratings = <<>> /\ out = <<>> /\ decided = <<>>
    /\ lastRating = "" /\ startTime = 0 /\ combinedNotes = {} /\ results = <<>>
    /\ samples = <<>> /\ events = <<>>
    /\ handlers = <<>> /\ disk = {} /\ interference = {}

\* A valid convert request with any list of up to MaxSegs segments, on a
\* 2 fps video of MaxFrames frames.
InitRender ==
    /\ req = "convert" /\ build = "root"
    /\ video = FullVideo(4, MaxFrames)
    /\ form \in [age : Ages, videoType : Modes, hasFile : {TRUE},
                 ratingsStr : [kind : {"list"}, list : SeqsUpTo(RenderSegments, MaxSegs)]]
    /\ InitCommon

SpecRender == InitRender /\ [][NextConvert]_vars

\* Rating strings a client may send besides a plain "6+", "16+" or "18+"
OtherLabels ==
    { <<"12+", "">>, <<"6+ ", " 6+">>, <<"18", "12">>, <<"none", "G">>,
      <<"18 +", "Error: no choices in response">> }

\* Any convert request: every combination of absent, valid and invalid form
\* fields, on a file that may not open, may stop decoding partway and may
\* report one frame less than it holds; fps 0 (unknown), 0.5 and 2.
ConvertLists ==
    { <<>>, <<Segment(0, 2 * Period, "18+", <<>>)>>,
      <<Segment(0, Period, "6+", <<>>), Segment(Period, 2 * Period, "16+", <<>>)>> }
        \cup {<<Segment(0, 0, l[1], <<>>), Segment(Period, 2 * Period, l[2], <<>>)>> :
                l \in OtherLabels}
        \cup {<<Segment(0, 2 * Period, "Error: no choices in response", <<>>),
                 Segment(0, Period, l, <<>>)>> : l \in {" 6+", "18+"}}

ConvertRatingsStrs ==
    {[kind |-> "empty", list |-> <<>>], [kind |-> "malformed", list |-> <<>>]}
        \cup {[kind |-> "list", list |-> l] : l \in ConvertLists}

ConvertVideos ==
    {[fps |-> 0, nFrames |-> 0, readable |-> 0, totalFrames |-> 0, openable |-> FALSE]}
        \cup {v \in [fps : {0, 1, 4}, nFrames : 0..MaxFrames, readable : 0..MaxFrames,
                     totalFrames : 0..MaxFrames, openable : {TRUE}] :
                /\ v.readable <= v.nFrames
                /\ v.totalFrames <= v.nFrames
                /\ v.totalFrames >= v.nFrames - 1}

InitConvert ==
    /\ req = "convert" /\ build = "root"
    /\ video \in ConvertVideos
    /\ form \in [age : {"", "6", "12", "16", "18"},
                 videoType : {"", "blur", "trim", "crop"},
                 hasFile : BOOLEAN,
                 ratingsStr : ConvertRatingsStrs]
    /\ InitCommon

SpecConvert == InitConvert /\ [][NextConvert]_vars

\* Any upload, handled by either program: a file that may be missing, may not
\* open and may stop decoding partway; fps 0 (unknown), 0.5, 1, 2 and 2.5.
UploadVideos ==
    {[fps |-> 0, nFrames |-> 0, readable |-> 0, totalFrames |-> 0, openable |-> FALSE]}
        \cup {v \in [fps : {0, 1, 2, 4, 5}, nFrames : 0..MaxFrames,
                     readable : 0..MaxFrames, totalFrames : 0..MaxFrames,
                     openable : {TRUE}] :
                /\ v.readable <= v.nFrames
                /\ v.totalFrames = v.nFrames}

InitUpload ==
    /\ req = "upload" /\ build \in {"root", "backend"}
    /\ video \in UploadVideos
    /\ form \in [age : {""}, videoType : {""}, hasFile : BOOLEAN,
                 ratingsStr : {[kind |-> "empty", list |-> <<>>]}]
    /\ InitCommon

SpecUpload == InitUpload /\ [][NextUpload]_vars

\* ----------------------------------------------------- claims on the editor
\* The segment list the client sent, before any sort
Supplied == form.ratingsStr.list
TargetAge == Atoi(form.age)

\* [start, end] contains t / contains t within the 0.001 s tolerance
Within(s, t) == s.Start <= t /\ t <= s.End
WithinTolerance(s, t) == s.Start - Epsilon <= t /\ t <= s.End + Epsilon

Above(s) == getRatingValue(s.Rating) > TargetAge

DecidedIn(mode) == {k \in 1..Len(decided) : decided[k].mode = mode}

\* C1: in blur mode every frame the loop handles is written, blurred exactly
\* when some segment [Start, End] of the list contains its timestamp and has
\* getRatingValue(Rating) > targetAge, and unmodified otherwise (so a frame in
\* no segment, or only in segments rated at or below the target, is kept).
C1_BlurDecision ==
    /\ \A k \in DecidedIn("blur") :
        LET hit == \E i \in 1..Len(Supplied) :
                       Within(Supplied[i], decided[k].timestamp) /\ Above(Supplied[i])
        IN /\ decided[k].decision = (IF hit THEN "Transform" ELSE "Keep")
           /\ k <= Len(out)
           /\ out[k] = [frame |-> decided[k].frame, blurred |-> hit]
    /\ form.videoType = "blur" => Len(out) = Len(decided)

\* C1 witness: a finished blur render with a blurred frame, a kept frame in a
\* segment rated exactly at the target, and a kept frame in no segment.
C1_Witness ==
    /\ pc = "done" /\ response.status = 200 /\ form.videoType = "blur"
    /\ \E k \in DecidedIn("blur") : decided[k].decision = "Transform"
    /\ \E k \in DecidedIn("blur") :
        /\ decided[k].decision = "Keep"
        /\ \E i \in 1..Len(Supplied) :
            /\ Within(Supplied[i], decided[k].timestamp)
            /\ getRatingValue(Supplied[i].Rating) = TargetAge
    /\ \E k \in DecidedIn("blur") :
        /\ decided[k].decision = "Keep"
        /\ \A i \in 1..Len(Supplied) : ~WithinTolerance(Supplied[i], decided[k].timestamp)

\* The segments that contain t within the tolerance, and those among them
\* with the smallest Start
Containing(t) == {i \in 1..Len(Supplied) : WithinTolerance(Supplied[i], t)}
FirstContaining(t) ==
    {i \in Containing(t) : \A j \in Containing(t) : Supplied[i].Start <= Supplied[j].Start}

\* C2 as claimed: in trim mode a frame is written only if it falls in a segment
\* rated at or below the target, and is dropped if it falls in a segment rated
\* above the target or in no segment.
C2_TrimAsClaimed ==
    \A k \in DecidedIn("trim") :
        LET t == decided[k].timestamp IN
        /\ decided[k].decision = "Keep" => \E i \in Containing(t) : ~Above(Supplied[i])
        /\ (\E i \in Containing(t) : Above(Supplied[i])) => decided[k].decision = "Drop"
        /\ Containing(t) = {} => decided[k].decision = "Drop"

\* C2 amended: in trim mode the containing segment (within the tolerance) with
\* the smallest Start decides: the frame is written if that segment is rated
\* at or below the target, dropped if it is rated above, and dropped if no
\* segment contains the frame; written frames are exactly the kept ones.
C2_TrimDecision ==
    /\ \A k \in DecidedIn("trim") :
        LET t == decided[k].timestamp IN
        /\ Containing(t) = {} => decided[k].decision = "Drop"
        /\ (Containing(t) # {} /\ \A i \in FirstContaining(t) : ~Above(Supplied[i]))
              => decided[k].decision = "Keep"
        /\ (Containing(t) # {} /\ \A i \in FirstContaining(t) : Above(Supplied[i]))
              => decided[k].decision = "Drop"
        /\ decided[k].decision = "Keep" => \E i \in FirstContaining(t) : ~Above(Supplied[i])
        /\ decided[k].decision = "Drop" =>
              (Containing(t) = {} \/ \E i \in FirstContaining(t) : Above(Supplied[i]))
        /\ decided[k].decision \in {"Keep", "Drop"}
        /\ (decided[k].decision = "Keep") <=>
              (\E j \in 1..Len(out) : out[j] = [frame |-> decided[k].frame, blurred |-> FALSE])
    /\ form.videoType = "trim" => Len(out) <= Len(decided)

\* C2 witness: a finished trim render that kept a frame, dropped a frame of a
\* segment above the target and dropped a frame no segment contains.
C2_Witness ==
    /\ pc = "done" /\ response.status = 200 /\ form.videoType = "trim"
    /\ \E k \in DecidedIn("trim") : decided[k].decision = "Keep"
    /\ \E k \in DecidedIn("trim") :
        /\ decided[k].decision = "Drop"
        /\ Containing(decided[k].timestamp) # {}
    /\ \E k \in DecidedIn("trim") :
        /\ decided[k].decision = "Drop"
        /\ Containing(decided[k].timestamp) = {}

\* C6 as claimed: both modes test membership with the 0.001 s tolerance, so a
\* frame within the tolerance of a segment above the target is blurred in blur
\* mode and, when that is its only segment, dropped in trim mode; a frame
\* further away from every segment above the target is not.
C6_ToleranceBothModes ==
    /\ \A k \in DecidedIn("blur") :
        (decided[k].decision = "Transform") <=>
            \E i \in Containing(decided[k].timestamp) : Above(Supplied[i])
    /\ \A k \in DecidedIn("trim") :
        LET t == decided[k].timestamp IN
        /\ (Containing(t) # {} /\ \A i \in Containing(t) : Above(Supplied[i]))
              => decided[k].decision = "Drop"
        /\ (Containing(t) # {} /\ \A i \in Containing(t) : ~Above(Supplied[i]))
              => decided[k].decision = "Keep"
        /\ Containing(t) = {} => decided[k].decision = "Drop"

\* The segments a mode's own membership test takes to contain t, and the
\* ones among them with the smallest Start
ContainingFor(mode, t) ==
    {i \in 1..Len(Supplied) :
        IF mode = "blur" THEN Within(Supplied[i], t) ELSE WithinTolerance(Supplied[i], t)}
FirstFor(mode, t) ==
    {i \in ContainingFor(mode, t) :
        \A j \in ContainingFor(mode, t) : Supplied[i].Start <= Supplied[j].Start}

\* C7 as claimed: in both modes, whatever the order of the list, a frame that
\* several segments contain gets the decision of the containing segment with
\* the smallest Start alone.
C7_FirstMatchBothModes ==
    \A k \in 1..Len(decided) :
        LET first == FirstFor(decided[k].mode, decided[k].timestamp) IN
        \A i \in first :
            (\A j \in first : Above(Supplied[j]) = Above(Supplied[i])) =>
                decided[k].decision =
                    (IF decided[k].mode = "blur"
                     THEN (IF Above(Supplied[i]) THEN "Transform" ELSE "Keep")
                     ELSE (IF Above(Supplied[i]) THEN "Drop" ELSE "Keep"))

\* ------------------------------------------------- claims on convertVideo
Invalid(f) ==
    \/ f.age \notin {"6", "12", "16"}
    \/ f.videoType \notin {"blur", "trim"}
    \/ f.ratingsStr.kind = "malformed"

C10_RenderFailureLeavesNoOutput ==
    (/\ pc = "done"
     /\ \E k \in 1..Len(events) : events[k] \in {"decode failed", "open failed", "create failed"})
        => /\ response.status >= 400
           /\ response.filename = ""
           /\ processed = {}

\* ------------------------------------------------- claims on processVideo
Fps == EffectiveFps(video.fps)

\* processVideo has returned its list and no classifier call failed
Analyzed ==
    /\ req = "upload" /\ pc = "respond"
    /\ \A k \in 1..Len(samples) : samples[k].err = "" /\ ~samples[k].panic

\* The maximal runs of consecutive samples with the same rating, in order:
\* each with its rating and the note tokens of its samples.
RECURSIVE Runs(_)
Runs(ss) ==
    IF ss = <<>> THEN <<>>
    ELSE LET rest == Runs(Tail(ss))
             s == Head(ss)
         IN IF rest # <<>> /\ Len(ss) > 1 /\ ss[2].rating = s.rating
            THEN <<[rest[1] EXCEPT !.tokens = @ \cup NoteTokens(s.notes)]>> \o Tail(rest)
            ELSE <<[rating |-> s.rating, tokens |-> NoteTokens(s.notes)]>> \o rest

\* C3 as claimed, for sample sequences in which every sample carries a rating:
\* the returned segments are ordered by start, do not overlap, begin at the
\* first sample's timestamp, end at the total duration, and leave no gap
\* between one segment's end and the next segment's start.
C3_SegmentsCoverDuration ==
    (Analyzed /\ samples # <<>> /\ \A k \in 1..Len(samples) : samples[k].rating # "") =>
        /\ results # <<>>
        /\ results[1].Start = samples[1].timestamp
        /\ results[Len(results)].End = Timestamp(frameIndex, Fps)
        /\ \A i \in 1..(Len(results) - 1) :
            /\ results[i].Start <= results[i + 1].Start
            /\ results[i].End <= results[i + 1].Start
            /\ results[i + 1].Start <= results[i].End

\* C4 as claimed: the returned list has exactly one segment per maximal run of
\* equally rated samples, in order, with the run's rating and with the sorted,
\* joined union of the run's note tokens as its notes.
C4_OneSegmentPerRun ==
    Analyzed =>
        /\ Len(results) = Len(Runs(samples))
        /\ \A i \in 1..Len(results) :
            i <= Len(Runs(samples)) =>
                /\ results[i].Rating = Runs(samples)[i].rating
                /\ results[i].Notes = NotesStr(Runs(samples)[i].tokens)

\* The three samples of scenario A, classified by the root program on a
\* three-frame video of 1 fps
ScenarioA ==
    /\ build = "root" /\ video.fps = 2 /\ frameIndex = 3
    /\ Len(samples) = 3
    /\ \A k \in 1..3 : samples[k].timestamp = (k - 1) * TicksPerSec /\ samples[k].err = ""
    /\ <<samples[1].rating, samples[2].rating, samples[3].rating>> = <<"6+", "6+", "12+">>
    /\ <<samples[1].notes, samples[2].notes, samples[3].notes>> = <<Kids, Forest, Fight>>

\* A merged sample changed the rating while a segment was open
C5_Closes ==
    /\ pc = "analyze" /\ frameIndex' = frameIndex + 1
    /\ Len(samples') = Len(samples) + 1
    /\ lastRating # ""
    /\ samples'[Len(samples')].rating # lastRating

\* C5: a sample at timestamp ts whose rating differs from the open segment's
\* makes the merger emit the open segment with end = ts - 1 s and continue with
\* start = ts and the sample's rating; the segment open when the stream ends is
\* emitted with end = frames read / fps; scenario A gives
\* [{0,1,"6+","forest, kids"}, {2,3,"12+","fight"}].
C5_ClosingRule ==
    /\ [][C5_Closes =>
            /\ Len(results') = Len(results) + 1
            /\ SubSeq(results', 1, Len(results)) = results
            /\ results'[Len(results')].Start = startTime
            /\ results'[Len(results')].End = samples'[Len(samples')].timestamp - TicksPerSec
            /\ results'[Len(results')].Rating = lastRating
            /\ startTime' = samples'[Len(samples')].timestamp
            /\ lastRating' = samples'[Len(samples')].rating]_vars
    /\ [][(pc = "analyzed" /\ pc' = "respond" /\ lastRating # "") =>
            /\ Len(results') = Len(results) + 1
            /\ SubSeq(results', 1, Len(results)) = results
            /\ results'[Len(results')].Start = startTime
            /\ results'[Len(results')].End * Fps = frameIndex * 2 * TicksPerSec
            /\ results'[Len(results')].Rating = lastRating]_vars
    /\ []((ScenarioA /\ pc = "respond") =>
            results = << Segment(0, TicksPerSec, "6+", Forest \o <<",", " ">> \o Kids),
                         Segment(2 * TicksPerSec, 3 * TicksPerSec, "12+", Fight) >>)

\* C5 witness: scenario A has been analyzed, its first segment closed by the
\* "12+" sample at 2 s and its second at the end of the stream.
C5_Witness ==
    /\ ScenarioA /\ pc = "respond" /\ Len(results) = 2
    /\ results[1].End = TicksPerSec /\ results[2].End = 3 * TicksPerSec

ClassifierFailed(sample) ==
    \/ sample.reply.kind \in {"transport error", "no choices"}
    \/ ~sample.reply.json.ok

ErrorRatings ==
    {"Error: " \o e : e \in {"failed to send request", "no choices in response",
                              "no JSON object found in response"}}

\* C8 as claimed: once the classifier call for the sample at t has failed (no
\* response, no choices, or content that does not parse), processVideo has
\* returned exactly one segment with start t and the error text as its rating,
\* no further frame is read or classified, and the list reaches the caller.
C8_ClassifierFailureSurfaced ==
    \A k \in 1..Len(samples) :
        ClassifierFailed(samples[k]) =>
            /\ k = Len(samples)
            /\ frameIndex = samples[k].frame
            /\ pc \in {"respond", "done"}
            /\ Len(results) = 1
            /\ results[1].Start = samples[k].timestamp
            /\ results[1].Rating \in ErrorRatings
            /\ pc = "done" => (response.status = 200 /\ response.ratings = results)

\* ------------------------------------------------- claims on temporary files
Happened(e) == \E k \in 1..Len(events) : events[k] = e

\* C11 as claimed: once a request whose uploaded file was saved has finished,
\* on whatever path (success, classifier failure, failure to open the video,
\* render failure), the temporary input file no longer exists.
C11_InputRemovedWhenFinished ==
    (pc = "done" /\ Happened("save")) => UploadName \notin uploads

\* ------------------------------------------------------ concurrent requests
\* net/http runs every request in a goroutine of its own; the handlers share
\* the uploads and processed folders.  Each request is followed through the
\* steps that touch a file.
ClientNames == {"a.mp4", "b.mp4"}

\* time.Now().UnixNano() as read by a request
Stamps == {1, 2}

\* filepath.Join("uploads", file.Filename)
InputPath(h) == "uploads/" \o h.name

\* fmt.Sprintf("processed_%d.mp4", time.Now().UnixNano()) under processed/
OutputPath(stamp) ==
    IF stamp = 1 THEN "processed/processed_1.mp4" ELSE "processed/processed_2.mp4"

FileAt(path) == {f \in disk : f.path = path}

\* what a write to path leaves on the disk, and what it did to another request
WriteFile(d, path, i) == {f \in d : f.path # path} \cup {[path |-> path, owner |-> i]}
Foreign(path, i, op) ==
    {[by |-> i, op |-> op, path |-> path] : f \in {g \in FileAt(path) : g.owner # i}}

SetHandler(i, position) == [handlers EXCEPT ![i].pc = position]

requestVars == <<req, build, video, form, pc, uploads, processed, response, frameIndex,
                 ratings, out, decided, lastRating, startTime, combinedNotes, results,
                 samples, events>>

\* c.SaveUploadedFile(file, filename)
ServeSave ==
    \E i \in DOMAIN handlers :
        /\ handlers[i].pc = "recv"
        /\ \E saved \in BOOLEAN :
            IF saved
            THEN /\ disk' = WriteFile(disk, InputPath(handlers[i]), i)
                 /\ interference' = interference \cup Foreign(InputPath(handlers[i]), i, "overwrite")
                 /\ handlers' = SetHandler(i, "saved")
            ELSE /\ handlers' = SetHandler(i, "done")
                 /\ UNCHANGED <<disk, interference>>
        /\ UNCHANGED requestVars

\* gocv.VideoCaptureFile(filename), then for a convert request the output file
\* of processVideoByAge; a failed open ends the request, and only convertVideo
\* removes its input then
ServeOpen ==
    \E i \in DOMAIN handlers :
        /\ handlers[i].pc = "saved"
        /\ LET path == InputPath(handlers[i])
               opens == \E f \in FileAt(path) : handlers[f.owner].openable
           IN IF ~opens
              THEN /\ handlers' = SetHandler(i, "done")
                   /\ IF handlers[i].kind = "convert"
                      THEN /\ disk' = disk \ FileAt(path)
                           /\ interference' = interference \cup Foreign(path, i, "delete")
                      ELSE UNCHANGED <<disk, interference>>
              ELSE IF handlers[i].kind = "upload"
              THEN /\ handlers' = SetHandler(i, "processing")
                   /\ interference' = interference \cup Foreign(path, i, "read")
                   /\ UNCHANGED disk
              ELSE \E stamp \in Stamps :
                   /\ handlers' = [handlers EXCEPT ![i].pc = "processing",
                                                   ![i].output = OutputPath(stamp)]
                   /\ disk' = WriteFile(disk, OutputPath(stamp), i)
                   /\ interference' = interference \cup Foreign(path, i, "read")
                                          \cup Foreign(OutputPath(stamp), i, "overwrite")
        /\ UNCHANGED requestVars

\* os.Remove(filename) once the video was processed
ServeFinish ==
    \E i \in DOMAIN handlers :
        /\ handlers[i].pc = "processing"
        /\ handlers' = SetHandler(i, "done")
        /\ disk' = disk \ FileAt(InputPath(handlers[i]))
        /\ interference' = interference \cup Foreign(InputPath(handlers[i]), i, "delete")
        /\ UNCHANGED requestVars

NextConcurrent == ServeSave \/ ServeOpen \/ ServeFinish

\* Two requests of any kind, with equal or different client file names
InitConcurrent ==
    /\ handlers \in [1..2 -> [kind : {"upload", "convert"}, name : ClientNames,
                              openable : BOOLEAN, pc : {"recv"}, output : {""}]]
    /\ disk = {} /\ interference = {}
    /\ req = "upload" /\ build = "root"
    /\ video = [fps |-> 0, nFrames |-> 0, readable |-> 0, totalFrames |-> 0, openable |-> FALSE]
    /\ form = [age |-> "", videoType |-> "", hasFile |-> FALSE,
               ratingsStr |-> [kind |-> "empty", list |-> <<>>]]
    /\ pc = "recv"
    /\ uploads = {} /\ processed = {}
    /\ response = NoResponse
    /\ frameIndex = 0
    /\ ratings = <<>> /\ out = <<>> /\ decided = <<>>
    /\ lastRating = "" /\ startTime = 0 /\ combinedNotes = {} /\ results = <<>>
    /\ samples = <<>> /\ events = <<>>

SpecConcurrent == InitConcurrent /\ [][NextConcurrent]_vars

\* C12 as claimed: whatever the interleaving of two requests, and also when
\* both uploads carry the same client file name, neither request reads,
\* overwrites or deletes a temporary input or output file of the other.
C12_NoInterference == interference = {}

\* ------------------------------------------------ claims on the rating scale
\* The value the rating scale gives a label: 6, 12, 16, 18 for the four
\* labels, 0 for any other string
ScaleValue(label) ==
    IF label = "6+" THEN 6 ELSE IF label = "12+" THEN 12 ELSE IF label = "16+" THEN 16
    ELSE IF label = "18+" THEN 18 ELSE 0

\* Position on the scale none < 6+ < 12+ < 16+ < 18+ (none: any other string)
ScaleRank(label) ==
    IF label = "6+" THEN 1 ELSE IF label = "12+" THEN 2 ELSE IF label = "16+" THEN 3
    ELSE IF label = "18+" THEN 4 ELSE 0

SentLabels == UNION {{s.Rating : s \in Range(l)} : l \in ConvertLists}

Matched == {k \in DecidedIn("trim") : decided[k].inRatedSegment}

\* C13: the value trim computed for the rating string of the segment a frame
\* matched is 6, 12, 16, 18 for exactly "6+", "12+", "16+", "18+" and 0 for
\* every other string (the empty string included); the values respect the
\* order none < 6+ < 12+ < 16+ < 18+; and two frames that matched the same
\* rating string got the same value.
C13_RatingValueTotal ==
    /\ \A k \in Matched : decided[k].ratingValue = ScaleValue(decided[k].matchedRating)
    /\ \A j, k \in Matched :
        /\ decided[j].matchedRating = decided[k].matchedRating
              => decided[j].ratingValue = decided[k].ratingValue
        /\ ScaleRank(decided[j].matchedRating) <= ScaleRank(decided[k].matchedRating)
              => decided[j].ratingValue <= decided[k].ratingValue
    /\ \A a, b \in SentLabels :
        ScaleRank(a) <= ScaleRank(b) => getRatingValue(a) <= getRatingValue(b)

C13_Witness ==
    /\ pc = "done" /\ response.status = 200
    /\ \E j, k \in Matched :
        /\ decided[j].matchedRating = "12+" /\ decided[j].ratingValue = 12
        /\ decided[k].matchedRating = "" /\ decided[k].ratingValue = 0

\* ---------------------------------------------------- claims on the notes
\* The tokens of a notes string as the claim defines them: the pieces between
\* commas, trimmed and lower-cased, without the empty ones and "none"
ClaimTokens(notes) ==
    {t \in {TrimSpace(ToLower(piece)) : piece \in Range(Split(notes))} :
        t # <<>> /\ t # <<"n", "o", "n", "e">>}

\* The list a ", "-joined string was joined from; the pieces after the first
\* begin with the blank of the separator
Unjoin(str) ==
    IF str = <<>> THEN <<>>
    ELSE LET pieces == Split(str)
         IN [i \in 1..Len(pieces) |->
                IF i = 1 \/ pieces[i] = <<>> \/ Head(pieces[i]) # " " THEN pieces[i]
                ELSE Tail(pieces[i])]

\* The samples merged into the i-th returned segment: those with its rating
\* from its start up to the start of the next segment
SamplesOf(i) ==
    {k \in 1..Len(samples) :
        /\ samples[k].err = "" /\ ~samples[k].panic
        /\ samples[k].rating = results[i].Rating
        /\ results[i].Start <= samples[k].timestamp
        /\ i < Len(results) => samples[k].timestamp < results[i + 1].Start}

TokensOf(i) == UNION {ClaimTokens(samples[k].notes) : k \in SamplesOf(i)}

\* C14: the notes of every returned segment are the distinct tokens of the
\* notes of the samples merged into it (split on commas, trimmed, lower-cased,
\* empty tokens and "none" left out), in ascending byte order without
\* repetition, joined by ", "; so two segments merged from the same tokens
\* carry the same notes, in whatever order the tokens arrived.
C14_NotesCanonical ==
    (req = "upload" /\ pc = "respond") =>
        /\ \A i \in 1..Len(results) :
            LET toks == Unjoin(results[i].Notes)
            IN /\ Join(toks) = results[i].Notes
               /\ \A n \in 1..Len(toks) :
                    /\ toks[n] # <<>> /\ toks[n] # <<"n", "o", "n", "e">>
                    /\ TrimSpace(toks[n]) = toks[n] /\ ToLower(toks[n]) = toks[n]
               /\ \A n \in 1..(Len(toks) - 1) : StringLess(toks[n], toks[n + 1])
               /\ Analyzed => Range(toks) = TokensOf(i)
        /\ Analyzed =>
            \A i, j \in 1..Len(results) :
                TokensOf(i) = TokensOf(j) => results[i].Notes = results[j].Notes

C14_Witness ==
    /\ Analyzed /\ build = "root"
    /\ \E i \in 1..Len(results) :
        /\ results[i].Notes = <<"f", "i", "g", "h", "t", ",", " ", "k", "i", "d", "s">>
        /\ \E j, k \in SamplesOf(i) :
            j < k /\ samples[j].notes = Messy /\ samples[k].notes = Fight

\* ------------------------------------------------- claims on the segments
\* C15 as claimed: every segment processVideo returns, the final one and the
\* one that reports a classifier failure included, has 0 <= start <= end.
C15_StartBeforeEnd ==
    (req = "upload" /\ pc \in {"respond", "done"}) =>
        \A i \in 1..Len(results) :
            0 <= results[i].Start /\ results[i].Start <= results[i].End

\* C16: when processVideo returns without having sampled a frame, its list is
\* empty; and an upload whose video opens but yields no frame is answered 200
\* with an empty list and no error.
C16_NoSampleNoSegment ==
    /\ (req = "upload" /\ pc = "respond" /\ samples = <<>>) => results = <<>>
    /\ (req = "upload" /\ pc = "done" /\ Happened("open") /\ video.readable = 0) =>
            /\ samples = <<>> /\ results = <<>>
            /\ response.status = 200 /\ response.error = "" /\ response.ratings = <<>>

C16_Witness ==
    /\ req = "upload" /\ pc = "done" /\ Happened("open")
    /\ video.readable = 0 /\ video.fps = 2
    /\ response.status = 200 /\ response.ratings = <<>>

\* ------------------------------------------------------------- end to end
\* The client sends the list it received from /upload back to /convert, with
\* the same file and a policy of its choice.
ClientConvert ==
    /\ req = "upload" /\ pc = "done" /\ response.status = 200
    /\ req' = "convert" /\ pc' = "recv"
    /\ \E age \in Ages, videoType \in Modes :
        form' = [age |-> age, videoType |-> videoType, hasFile |-> TRUE,
                 ratingsStr |-> [kind |-> "list", list |-> response.ratings]]
    /\ response' = NoResponse
    /\ frameIndex' = 0
    /\ UNCHANGED <<concurrentVars, build, video, uploads, processed, renderVars,
                   analysisVars, events>>

NextEndToEnd == NextUpload \/ ClientConvert \/ NextConvert

\* An upload of a whole video of 1 or 2 fps to the root program
InitEndToEnd ==
    /\ req = "upload" /\ build = "root"
    /\ video \in {FullVideo(fps, n) : fps \in {2, 4}, n \in 1..MaxFrames}
    /\ form = [age |-> "", videoType |-> "", hasFile |-> TRUE,
               ratingsStr |-> [kind |-> "empty", list |-> <<>>]]
    /\ InitCommon

SpecEndToEnd == InitEndToEnd /\ [][NextEndToEnd]_vars

\* The governing sample of a frame: the most recent sampled frame at or before it
Governing(frame) ==
    {k \in 1..Len(samples) :
        /\ samples[k].frame <= frame
        /\ \A j \in 1..Len(samples) : samples[j].frame <= frame => j <= k}

\* every sample was classified, with a rating
AllRated == \A k \in 1..Len(samples) : samples[k].err = "" /\ samples[k].rating # ""

\* C17 as claimed, for analyses in which every sample got a rating: in blur
\* mode, with the list processVideo returned for the same video, every frame
\* whose governing sample was rated above the target age is written blurred.
C17_BlurEndToEnd ==
    (req = "convert" /\ AllRated) =>
        \A k \in DecidedIn("blur") : \A g \in Governing(decided[k].frame) :
            getRatingValue(samples[g].rating) > TargetAge => decided[k].decision = "Transform"

\* C18 as claimed, for analyses in which every sample got a rating: in trim
\* mode, with the list processVideo returned for the same video, a frame is
\* written exactly when its governing sample was rated at or below the
\* target age.
C18_TrimEndToEnd ==
    (req = "convert" /\ AllRated) =>
        \A k \in DecidedIn("trim") : \A g \in Governing(decided[k].frame) :
            (decided[k].decision = "Keep") <=> (getRatingValue(samples[g].rating) <= TargetAge)

\* The returned segments that carry the sample's rating and contain its timestamp
Holding(sample) ==
    {i \in 1..Len(results) :
        /\ results[i].Rating = sample.rating
        /\ results[i].Start <= sample.timestamp /\ sample.timestamp <= results[i].End}

\* C19 as claimed: when the analysis ended without a classifier failure, every
\* classified sample, whatever its rating string (the empty one included),
\* lies in exactly one returned segment with its rating and
\* start <= timestamp <= end.
C19_EverySampleInOneSegment ==
    Analyzed => \A k \in 1..Len(samples) : Cardinality(Holding(samples[k])) = 1

\* ------------------------------------------- claims on the segment lifecycle
\* processVideo holds an open segment exactly while lastRating is not ""
Open == lastRating # ""

\* The samples that opened a segment: those with a rating other than "" that
\* differs from the rating of the sample before
Openers ==
    {k \in 1..Len(samples) :
        /\ samples[k].rating # ""
        /\ k > 1 => samples[k - 1].rating # samples[k].rating}

\* the n-th opener, in order of arrival
Opener(n) == CHOOSE k \in Openers : Cardinality({j \in Openers : j <= k}) = n

NoFailure == \A k \in 1..Len(samples) : samples[k].err = "" /\ ~samples[k].panic

\* this step opens a segment
Opens == Open' /\ (lastRating' # lastRating \/ startTime' # startTime)

\* this step appends the segment that was open to results
Emits ==
    /\ Len(results') = Len(results) + 1
    /\ SubSeq(results', 1, Len(results)) = results
    /\ results'[Len(results')].Start = startTime
    /\ results'[Len(results')].Rating = lastRating

\* C20: during one analysis run the segments opened and not yet emitted are
\* at most one, and it is the open one; a step opens a segment only when none
\* is open or when the same step appends the open one to results; results
\* only grows by the segment that was open; and when the stream has ended
\* without a classifier failure the returned list holds every opened segment
\* exactly once, in the order of opening.
C20_SegmentLifecycle ==
    /\ []((req = "upload" /\ pc \in {"analyze", "analyzed"} /\ NoFailure) =>
            /\ Cardinality(Openers) - Len(results) = (IF Open THEN 1 ELSE 0)
            /\ Open => /\ startTime = samples[Opener(Cardinality(Openers))].timestamp
                       /\ lastRating = samples[Opener(Cardinality(Openers))].rating)
    /\ [][(req = "upload" /\ Opens) => (~Open \/ Emits)]_vars
    /\ [][(req = "upload" /\ NoFailure' /\ results' # results) => (Open /\ Emits)]_vars
    /\ [](Analyzed =>
            /\ Len(results) = Cardinality(Openers)
            /\ \A i \in 1..Len(results) :
                /\ results[i].Start = samples[Opener(i)].timestamp
                /\ results[i].Rating = samples[Opener(i)].rating)

C20_Witness ==
    /\ Analyzed /\ Len(samples) = 3 /\ Len(results) = 2
    /\ samples[1].rating = "6+" /\ samples[2].rating = "" /\ samples[3].rating = "12+"

\* ------------------------------------------------ claims on the classifier
\* The frames the loop has passed that met the sampling test
\* frameIndex % int(fps) == 0, and the classifier calls made for a frame
SampledFrames ==
    {f \in 0..(frameIndex - 1) : f % IntFps(Fps) = 0}
        \cup {samples[k].frame : k \in 1..Len(samples)}

CallsFor(f) == {k \in 1..Len(samples) : samples[k].frame = f}

CallFailed(k) == samples[k].err # "" \/ samples[k].panic

\* C21 as claimed: in one analysis run the classifier is called exactly once
\* for every sampled frame, in strictly increasing timestamp order; the
\* result of a call is merged before the next call (the locals carry the
\* rating of the latest call); and a failed call is the last call.
C21_OneCallPerSampledFrame ==
    (req = "upload" /\ IntFps(Fps) > 0) =>
        /\ \A f \in SampledFrames : Cardinality(CallsFor(f)) = 1
        /\ \A k \in 1..(Len(samples) - 1) :
            /\ samples[k].timestamp < samples[k + 1].timestamp
            /\ ~CallFailed(k)
        /\ (samples # <<>> /\ ~CallFailed(Len(samples))) =>
            /\ lastRating = samples[Len(samples)].rating
            /\ NoteTokens(samples[Len(samples)].notes) \subseteq combinedNotes

\* ---------------------------------------------------- claims on the sampling
\* C22 as claimed: whatever frame rate the file reports (30 taken when it is
\* <= 0; non-integer and below-1 rates included), the sampling test does not
\* fail, and the timestamps of two consecutive sampled frames are strictly
\* increasing and exactly one second apart.
C22_OneSamplePerSecond ==
    req = "upload" =>
        /\ response.error # "panic: integer divide by zero"
        /\ \A j, k \in 1..Len(samples) :
            samples[k].frame = samples[j].frame + IntFps(Fps) =>
                /\ samples[j].timestamp < samples[k].timestamp
                /\ samples[k].timestamp - samples[j].timestamp = TicksPerSec

\* ---------------------------------------------------- claims on the render
\* The decision the render takes for a frame at timestamp t, from the list
\* the client sent and the policy alone
DecisionsFor(mode, t) ==
    IF mode = "blur"
    THEN {IF BlurScan(Supplied, 1, t, TargetAge) THEN "Transform" ELSE "Keep"}
    ELSE {IF TrimScan(sorted, 1, t, TargetAge).shouldInclude THEN "Keep" ELSE "Drop" :
            sorted \in SortByStart(Supplied)}

Rendering == req = "convert" /\ pc \in {"blur", "trim_sort", "trim", "rendered", "done"}

IndependentDecisions ==
    \A k \in 1..Len(decided) :
        decided[k].decision \in DecisionsFor(decided[k].mode, decided[k].timestamp)

DistinctStarts ==
    \A i, j \in 1..Len(Supplied) : i # j => Supplied[i].Start # Supplied[j].Start

\* C23 as claimed, for lists whose segments start at different times: while
\* and after blur or trim renders, the segment list it was given holds the
\* same elements in the same order as before, and the decision for each
\* frame is the one its timestamp, the list and the policy give, whatever was
\* decided for the frames before it.
C23_ListUnchanged ==
    (Rendering /\ Happened("open") /\ DistinctStarts) =>
        /\ ratings = Supplied
        /\ IndependentDecisions

\* The frame numbers written to the output, in the order written
Written == [k \in 1..Len(out) |-> out[k].frame]

\* The frame numbers the input stream yields before video.Read fails
Yielded == [k \in 1..video.readable |-> k - 1]

\* C24 as claimed: when the render loop has ended, in blur mode the output
\* holds one frame for every frame the input stream yielded, in input order;
\* in trim mode the written frames are yielded frames in increasing order;
\* and the loop never runs past the end of the stream.
C24_OutputFrames ==
    (req = "convert" /\ Happened("create output")) =>
        /\ frameIndex <= video.readable
        /\ (pc = "rendered" /\ form.videoType = "blur") => Written = Yielded
        /\ (pc = "rendered" /\ form.videoType = "trim") =>
            /\ \A k \in 1..Len(out) : out[k].frame \in Range(Yielded)
            /\ \A j, k \in 1..Len(out) : j < k => out[j].frame < out[k].frame

\* ------------------------------------------------ claims on unknown ratings
\* a rating string outside the scale
Unknown(label) == label \notin {"6+", "12+", "16+", "18+"}

\* the frame was written as it was read
Unmodified(k) ==
    /\ decided[k].decision = "Keep"
    /\ \E n \in 1..Len(out) : out[n].frame = decided[k].frame /\ ~out[n].blurred

\* C25: for every target age, a frame is written unmodified when, in trim
\* mode, the segment it matched carries a rating string other than "6+",
\* "12+", "16+", "18+", and when, in blur mode, every segment that contains
\* it carries such a string.
C25_UnknownRatingUnmodified ==
    req = "convert" =>
        /\ \A k \in Matched : Unknown(decided[k].matchedRating) => Unmodified(k)
        /\ \A k \in DecidedIn("blur") :
            LET all == ContainingFor("blur", decided[k].timestamp)
            IN (all # {} /\ \A i \in all : Unknown(Supplied[i].Rating)) => Unmodified(k)

C25_Witness ==
    /\ req = "convert" /\ pc = "done" /\ response.status = 200 /\ form.age = "6"
    /\ \E k \in DecidedIn("blur") : \E i \in ContainingFor("blur", decided[k].timestamp) :
        /\ Supplied[i].Rating = "Error: no choices in response"
        /\ Cardinality(ContainingFor("blur", decided[k].timestamp)) = 2
        /\ Unmodified(k)

====
